---------------------------- MODULE Spec2Model ----------------------------
(***************************************************************************)
(* Model of tokenaisu's Moses tokenizer (src/src/lib.rs).                  *)
(*                                                                         *)
(* A text is a sequence of characters; a character is a one-element TLA+   *)
(* string ("a", ".", "'"), or a name such as "U+0101" for a character      *)
(* that has no printable ASCII form.  Every regular expression of lib.rs   *)
(* is translated to a record of character classes and its replacement      *)
(* string to a template, and applied by ReplaceAll the way                 *)
(* Regex::replace_all applies it: leftmost match first, matches never      *)
(* overlapping.                                                            *)
(***************************************************************************)
EXTENDS Integers, Sequences, FiniteSets, TLC

VARIABLES
    entry,                       \* which pub fn the caller invoked
    pc,                          \* position in the code
    text,                        \* moses_tokenize_line's `text` argument
    language,
    no_escaping,
    aggresive_hyphen_splitting,
    protected_patterns,          \* the caller's patterns, in order
    tokenized_text,              \* the working string of moses_tokenize_line
    found_protected_patterns,    \* HashMap: placeholder -> captured text
    pre_escape,                  \* tokenized_text as the Escaper received it
    resolved,                    \* tokenized_text as the word loop left it
    contents,                    \* moses_tokenize's `text` / the input file
    input_file_readable,         \* whether fs::read_to_string succeeds
    pending_lines,               \* lines of contents not yet tokenized
    tokenized_contents,          \* concatenation of the tokenized lines
    lines_tokenized,             \* calls of moses_tokenize_line so far
    output_file,                 \* "absent" or the text written to it
    outcome                      \* what the caller gets back

vars == << entry, pc, text, language, no_escaping, aggresive_hyphen_splitting,
           protected_patterns, tokenized_text, found_protected_patterns,
           pre_escape, resolved, contents, input_file_readable, pending_lines,
           tokenized_contents, lines_tokenized, output_file, outcome >>

lineVars == << text, tokenized_text, found_protected_patterns, pre_escape,
               resolved >>
callVars == << entry, language, no_escaping, aggresive_hyphen_splitting,
               protected_patterns, contents, input_file_readable >>
fileVars == << pending_lines, tokenized_contents, lines_tokenized,
               output_file, outcome >>

-----------------------------------------------------------------------------
(* Characters *)

Range(s) == { s[i] : i \in 1..Len(s) }

\* Printable ASCII, in code-point order starting at U+0020 ("U+0060" is the
\* backtick).
Ascii ==
    << " ", "!", "\"", "#", "$", "%", "&", "'", "(", ")", "*", "+", ",", "-",
       ".", "/", "0", "1", "2", "3", "4", "5", "6", "7", "8", "9", ":", ";",
       "<", "=", ">", "?", "@", "A", "B", "C", "D", "E", "F", "G", "H", "I",
       "J", "K", "L", "M", "N", "O", "P", "Q", "R", "S", "T", "U", "V", "W",
       "X", "Y", "Z", "[", "\\", "]", "^", "_", "U+0060", "a", "b", "c", "d", "e",
       "f", "g", "h", "i", "j", "k", "l", "m", "n", "o", "p", "q", "r", "s",
       "t", "u", "v", "w", "x", "y", "z", "{", "|", "}", "~" >>

\* The other characters of the model and their code points.
OtherCodePoint ==
    [ c \in { "U+0001", "\t", "\n", "U+000B", "\f", "\r", "U+001F", "U+0085",
              "U+00A0", "U+00DF", "U+0101", "U+0119", "U+0120", "U+0663",
              "U+4E00" } |->
        CASE c = "U+0001" -> 1
          [] c = "\t"     -> 9
          [] c = "\n"     -> 10
          [] c = "U+000B" -> 11
          [] c = "\f"     -> 12
          [] c = "\r"     -> 13
          [] c = "U+001F" -> 31
          [] c = "U+0085" -> 133
          [] c = "U+00A0" -> 160
          [] c = "U+00DF" -> 223
          [] c = "U+0101" -> 257
          [] c = "U+0119" -> 281
          [] c = "U+0120" -> 288
          [] c = "U+0663" -> 1635
          [] c = "U+4E00" -> 19968 ]

CodePoint(c) ==
    IF c \in DOMAIN OtherCodePoint
    THEN OtherCodePoint[c]
    ELSE 31 + (CHOOSE i \in 1..Len(Ascii) : Ascii[i] = c)

AsciiUpper == { Ascii[i] : i \in 34..59 }
AsciiLower == { Ascii[i] : i \in 66..91 }
AsciiDigit == { Ascii[i] : i \in 17..26 }          \* char::is_ascii_digit

\* \p{L}; of the model's characters these are also char::is_alphabetic.
Letter == AsciiUpper \cup AsciiLower \cup
          { "U+00DF", "U+0101", "U+0119", "U+0120", "U+4E00" }
\* char::is_lowercase
Lowercase == AsciiLower \cup { "U+00DF", "U+0101", "U+0119" }
\* \p{N}
Number == AsciiDigit \cup { "U+0663" }
\* char::is_whitespace and the regex class \s (Unicode White_Space)
WhiteSpace == { " ", "\t", "\n", "U+000B", "\f", "\r", "U+0085", "U+00A0" }
\* char::is_ascii_whitespace
AsciiWhiteSpace == { " ", "\t", "\n", "\f", "\r" }

-----------------------------------------------------------------------------
(* Strings *)

RECURSIVE Concat(_)
Concat(ss) == IF ss = << >> THEN << >> ELSE Head(ss) \o Concat(Tail(ss))

\* s[i..j], empty when j < i
Slice(s, i, j) == IF j < i THEN << >> ELSE SubSeq(s, i, j)

StartsWithAt(s, i, lit) ==
    /\ i + Len(lit) - 1 <= Len(s)
    /\ \A k \in 1..Len(lit) : s[i + k - 1] = lit[k]

\* str::contains
Contains(s, lit) == \E i \in 1..(Len(s) + 1) : StartsWithAt(s, i, lit)

EndsWith(s, lit) ==
    Len(lit) <= Len(s) /\ StartsWithAt(s, Len(s) - Len(lit) + 1, lit)

\* The least element of a non-empty set of positions
Least(S) == CHOOSE j \in S : \A k \in S : j <= k

\* str::replace(from, to), from a non-empty literal: the occurrences of from
\* are taken left to right, none overlapping the one before
RECURSIVE ReplaceLitFrom(_, _, _, _)
ReplaceLitFrom(s, i, from, to) ==
    LET found == { j \in i..Len(s) : StartsWithAt(s, j, from) }
    IN  IF found = { } THEN Slice(s, i, Len(s))
        ELSE Slice(s, i, Least(found) - 1) \o to
             \o ReplaceLitFrom(s, Least(found) + Len(from), from, to)

ReplaceLit(s, from, to) == ReplaceLitFrom(s, 1, from, to)

\* str::split_whitespace / str::split_ascii_whitespace: the maximal runs of
\* characters outside ws
RECURSIVE SplitFrom(_, _, _)
SplitFrom(s, i, ws) ==
    LET starts == { j \in i..Len(s) : s[j] \notin ws }
        first  == Least(starts)
        stops  == { j \in first..Len(s) : s[j] \in ws }
        last   == IF stops = { } THEN Len(s) ELSE Least(stops) - 1
    IN  IF starts = { } THEN << >>
        ELSE << SubSeq(s, first, last) >> \o SplitFrom(s, last + 1, ws)

Split(s, ws) == SplitFrom(s, 1, ws)

\* [&str]::join(" ")
RECURSIVE Join(_)
Join(words) ==
    IF words = << >> THEN << >>
    ELSE IF Len(words) = 1 THEN words[1]
         ELSE words[1] \o << " " >> \o Join(Tail(words))

\* str::trim_end_matches('\n')
TrimEndNewlines(s) ==
    LET kept == { j \in 1..Len(s) : s[j] # "\n" }
    IN  IF kept = { } THEN << >>
        ELSE SubSeq(s, 1, CHOOSE j \in kept : \A k \in kept : k <= j)

-----------------------------------------------------------------------------
(* Regular expressions *)

\* One pattern position: a character class, possibly negated.
In(S)    == [ neg |-> FALSE, set |-> S ]
NotIn(S) == [ neg |-> TRUE,  set |-> S ]
Matches(c, item) == (c \in item.set) # item.neg

\* A literal stretch of a pattern
Lit(s) == [ k \in 1..Len(s) |-> In({ s[k] }) ]

\* A regex of the shapes lib.rs uses: a fixed number of one-character
\* positions, the positions of its capture groups, and whether it ends in $.
Re(items, groups, atEnd) ==
    [ items |-> items, groups |-> groups, atEnd |-> atEnd, lookAround |-> FALSE ]

\* A regex written with a look-ahead group (?=...).  The regex crate has no
\* look-around: Regex::new returns Err for such a pattern, so the
\* .unwrap() in the LazyLock initialiser panics at the first use.
ReLookAhead(items, groups) ==
    [ items |-> items, groups |-> groups, atEnd |-> FALSE, lookAround |-> TRUE ]

\* Regex::new(..).is_ok()
Compiles(re) == ~re.lookAround

MatchAt(s, i, re) ==
    /\ i + Len(re.items) - 1 <= Len(s)
    /\ \A k \in 1..Len(re.items) : Matches(s[i + k - 1], re.items[k])
    /\ re.atEnd => i + Len(re.items) - 1 = Len(s)

\* Regex::is_match
IsMatch(s, re) == \E i \in 1..Len(s) : MatchAt(s, i, re)

\* A replacement template: characters, and "$1", "$2" for the groups.
GroupRef == [ c \in { "$1", "$2" } |-> IF c = "$1" THEN 1 ELSE 2 ]
Expand(tmpl, s, i, re) ==
    [ k \in 1..Len(tmpl) |->
        IF tmpl[k] \in DOMAIN GroupRef
        THEN s[i + re.groups[GroupRef[tmpl[k]]] - 1]
        ELSE tmpl[k] ]

\* Regex::replace_all
RECURSIVE ReplaceAllFrom(_, _, _, _)
ReplaceAllFrom(s, i, re, tmpl) ==
    LET found == { j \in i..Len(s) : MatchAt(s, j, re) }
    IN  IF found = { } THEN Slice(s, i, Len(s))
        ELSE Slice(s, i, Least(found) - 1) \o Expand(tmpl, s, Least(found), re)
             \o ReplaceAllFrom(s, Least(found) + Len(re.items), re, tmpl)

ReplaceAll(s, re, tmpl) == ReplaceAllFrom(s, 1, re, tmpl)

-----------------------------------------------------------------------------
(* Language *)

Language ==
    { "as", "bn", "ca", "cs", "de", "el", "en", "es", "et", "fi", "fr", "ga",
      "gu", "hi", "hu", "is", "it", "kn", "lt", "lv", "ml", "mni", "mr", "nl",
      "or", "pa", "pl", "pt", "ro", "ru", "sk", "sl", "so", "sv", "ta", "tdt",
      "te", "yue", "zh" }

-----------------------------------------------------------------------------
(* The abbreviation dictionary.  Its module (nonbreaking_prefixes) is not   *)
(* among the sources; lib.rs only looks a prefix up in it, by language tag. *)

NONBREAKING_PREFIXES ==
    [ lang \in { "en", "fr" } |->
        IF lang = "en"
        THEN [ pre \in { << "M", "r" >>, << "N", "o" >> } |->
                 IF pre = << "M", "r" >> THEN "Always" ELSE "NumericOnly" ]
        ELSE [ pre \in { << "M" >> } |-> "Always" ] ]

\* NONBREAKING_PREFIXES.get(language.as_ref()).and_then(|h| h.get(pre))
PrefixLookup(lang, pre) ==
    IF lang \in DOMAIN NONBREAKING_PREFIXES
       /\ pre \in DOMAIN NONBREAKING_PREFIXES[lang]
    THEN NONBREAKING_PREFIXES[lang][pre]
    ELSE "None"

-----------------------------------------------------------------------------
(* Normalizer *)

\* trim_end_matches('\n').split_whitespace().collect().join(" "), then the
\* two padding spaces
Normalize(t) == << " " >> \o Join(Split(TrimEndNewlines(t), WhiteSpace)) \o << " " >>

\* ch as u8: the low eight bits of the code point
AsU8(c) == CodePoint(c) % 256

\* chars().filter(|&ch| ch as u8 > 31)
RemoveControlChars(s) == SelectSeq(s, LAMBDA c : AsU8(c) > 31)

\* split_whitespace().collect().join(" ")
CollapseWhitespace(s) == Join(Split(s, WhiteSpace))

-----------------------------------------------------------------------------
(* PatternProtector *)

THISISPROTECTED ==
    << "T", "H", "I", "S", "I", "S", "P", "R", "O", "T", "E", "C", "T", "E", "D" >>

Digit(n) == Ascii[17 + n]

\* format!("{:03}", n)
RECURSIVE Decimal(_)
Decimal(n) == IF n < 10 THEN << Digit(n) >>
              ELSE Decimal(n \div 10) \o << Digit(n % 10) >>

ZeroPad3(n) ==
    LET d == Decimal(n)
    IN  IF Len(d) >= 3 THEN d
        ELSE [ k \in 1..(3 - Len(d)) |-> "0" ] \o d

\* format!("THISISPROTECTED{:03}", found_protected_patterns.len())
Substitution(map) == THISISPROTECTED \o ZeroPad3(Cardinality(DOMAIN map))

\* HashMap::insert
Insert(map, key, value) ==
    [ k \in DOMAIN map \cup { key } |-> IF k = key THEN value ELSE map[k] ]

\* The pattern strings of the model.  P_QUOTED is the pattern of
\* tests::protected_patterns; P_MALFORMED is an unclosed group.
P_QUOTED == "([^\\p{L}])[']([^\\p{L}])"
P_APOS == "'"
P_DOLLAR == "\\$"
P_NEWLINE == "\\n"
P_ONE == "1"
P_MALFORMED == "("

\* Regex::new(t): Ok with the compiled regex, or Err
RegexNew(t) ==
    CASE t = P_QUOTED ->
           [ ok |-> TRUE,
             re |-> Re(<< NotIn(Letter), In({ "'" }), NotIn(Letter) >>, << 1, 3 >>, FALSE) ]
      [] t = P_APOS    -> [ ok |-> TRUE, re |-> Re(<< In({ "'" }) >>, << >>, FALSE) ]
      [] t = P_DOLLAR  -> [ ok |-> TRUE, re |-> Re(<< In({ "$" }) >>, << >>, FALSE) ]
      [] t = P_NEWLINE -> [ ok |-> TRUE, re |-> Re(<< In({ "\n" }) >>, << >>, FALSE) ]
      [] t = P_ONE     -> [ ok |-> TRUE, re |-> Re(<< In({ "1" }) >>, << >>, FALSE) ]
      [] OTHER         -> [ ok |-> FALSE ]

\* The Regex values moses_tokenize_line is given, named by their patterns
Compiled(t) == RegexNew(t).re

\* re_pattern.replace_all(s, |caps| { ... }): every match of re in s, left to
\* right, is recorded under a fresh placeholder and replaced by it.
RECURSIVE ProtectFrom(_, _, _, _)
ProtectFrom(s, i, re, map) ==
    LET found == { j \in i..Len(s) : MatchAt(s, j, re) }
        at    == Least(found)
        key   == Substitution(map)
        rest  == ProtectFrom(s, at + Len(re.items), re,
                     Insert(map, key, SubSeq(s, at, at + Len(re.items) - 1)))
    IN  IF found = { } THEN [ text |-> Slice(s, i, Len(s)), map |-> map ]
        ELSE [ text |-> Slice(s, i, at - 1) \o key \o rest.text, map |-> rest.map ]

\* for re_pattern in protected_patterns { tokenized_text =
\*     re_pattern.replace_all(&text, ...) }: every pattern is matched against
\* the function's argument `text`, and the result replaces tokenized_text.
RECURSIVE ProtectLoop(_, _, _, _, _)
ProtectLoop(patterns, k, t, cur, map) ==
    IF k > Len(patterns) THEN [ text |-> cur, map |-> map ]
    ELSE LET r == ProtectFrom(t, 1, Compiled(patterns[k]), map)
         IN  ProtectLoop(patterns, k + 1, t, r.text, r.map)

\* for (substitution, pattern) in found_protected_patterns { replace }, the
\* entries taken in the order `order`
RECURSIVE RestoreInOrder(_, _, _)
RestoreInOrder(s, order, map) ==
    IF order = << >> THEN s
    ELSE RestoreInOrder(ReplaceLit(s, Head(order), map[Head(order)]),
                        Tail(order), map)

\* The orders in which a HashMap's iterator may yield its keys
IterationOrders(map) ==
    LET n == Cardinality(DOMAIN map)
    IN  { o \in [ 1..n -> DOMAIN map ] :
            \A i, j \in 1..n : i # j => o[i] # o[j] }

-----------------------------------------------------------------------------
(* CharacterClassSplitter *)

KeptAttached == Letter \cup Number \cup WhiteSpace \cup
                { ".", "'", "U+0060", ",", "-" }

RE_GENERAL == Re(<< NotIn(KeptAttached) >>, << 1 >>, FALSE)
RE_GENERAL_FI_SV == Re(<< NotIn(KeptAttached \cup { ":" }) >>, << 1 >>, FALSE)
RE_GENERAL_CA == Re(<< NotIn(KeptAttached \cup { "U+00B7" }) >>, << 1 >>, FALSE)
RE_COLON == ReLookAhead(<< In({ ":" }) >>, << 1 >>)
RE_APOSTROPHE == ReLookAhead(<< In({ "'" }) >>, << 1 >>)
RE_MIDDOT == ReLookAhead(<< In({ "U+00B7" }) >>, << 1 >>)

Pad1 == << " ", "$1", " " >>

\* The regex the language's arm forces after its general rule, if any.
SecondRegex(lang) ==
    CASE lang \in { "fi", "sv" } -> << RE_COLON >>
      [] lang = "tdt"            -> << RE_APOSTROPHE >>
      [] lang = "ca"             -> << RE_MIDDOT >>
      [] OTHER                   -> << >>

GeneralRegex(lang) ==
    CASE lang \in { "fi", "sv" } -> RE_GENERAL_FI_SV
      [] lang = "ca"             -> RE_GENERAL_CA
      [] OTHER                   -> RE_GENERAL

RE_AGGRESSIVE_HYPHEN_SPLITTING ==
    ReLookAhead(<< In(Letter \cup Number), In({ "-" }) >>, << 1 >>)

-----------------------------------------------------------------------------
(* MultiDotTagger *)

DOTMULTI == << "D", "O", "T", "M", "U", "L", "T", "I" >>
DOTDOTMULTI == << "D", "O", "T" >> \o DOTMULTI

\* RE_NEW_MULTI_DOT \.([\.]+) replaced by " DOTMULTI$1": the greedy group
\* takes the rest of the run of periods.
RunEnd(s, i) ==
    LET stops == { j \in i..Len(s) : s[j] # "." }
    IN  IF stops = { } THEN Len(s) ELSE Least(stops) - 1

RECURSIVE TagMultiDotsFrom(_, _)
TagMultiDotsFrom(s, i) ==
    LET found == { j \in i..(Len(s) - 1) : s[j] = "." /\ s[j + 1] = "." }
        at    == Least(found)
    IN  IF found = { } THEN Slice(s, i, Len(s))
        ELSE Slice(s, i, at - 1) \o << " " >> \o DOTMULTI
             \o SubSeq(s, at + 1, RunEnd(s, at))
             \o TagMultiDotsFrom(s, RunEnd(s, at) + 1)

RE_DOTMULTI_LEFT == Re(Lit(DOTMULTI \o << "." >>), << >>, FALSE)
RE_DOTMULTI_PLUS_NONDOT ==
    Re(Lit(DOTMULTI \o << "." >>) \o << NotIn({ "." }) >>, << 10 >>, FALSE)
RE_DOTMULTI_EXPAND == Re(Lit(DOTMULTI \o << "." >>), << >>, FALSE)

\* One pass of the while loop's body
DotMultiStep(s) ==
    ReplaceAll(ReplaceAll(s, RE_DOTMULTI_PLUS_NONDOT,
                          DOTDOTMULTI \o << " ", "$1" >>),
               RE_DOTMULTI_EXPAND, DOTDOTMULTI)

\* while RE_DOTMULTI_LEFT.is_match(&tokenized_text) { ... }
RECURSIVE DotMultiLoop(_)
DotMultiLoop(s) ==
    IF IsMatch(s, RE_DOTMULTI_LEFT) THEN DotMultiLoop(DotMultiStep(s)) ELSE s

TagMultiDots(s) == DotMultiLoop(TagMultiDotsFrom(s, 1))

\* A bug: `if` for `while`, the expanded tags are rewritten once
RestoreLoop_Once(s) == ReplaceLit(s, DOTDOTMULTI, DOTMULTI \o << "." >>)

\* while contains("DOTDOTMULTI") { replace("DOTDOTMULTI", "DOTMULTI.") }
RECURSIVE RestoreLoop(_)
RestoreLoop(s) ==
    IF Contains(s, DOTDOTMULTI)
    THEN RestoreLoop(ReplaceLit(s, DOTDOTMULTI, DOTMULTI \o << "." >>))
    ELSE s

RestoreMultiDots(s) == ReplaceLit(RestoreLoop(s), DOTMULTI, << "." >>)

-----------------------------------------------------------------------------
(* CommaSeparator *)

RE_COMMA_AFTER_NON_NUMERIC ==
    Re(<< NotIn(Number), In({ "," }) >>, << 1 >>, FALSE)
RE_COMMA_BEFORE_NON_NUMERIC ==
    Re(<< In({ "," }), NotIn(Number) >>, << 2 >>, FALSE)
RE_COMMA_AFTER_NUMBER_END_OF_SENTENCE ==
    Re(<< In(Number), In({ "," }) >>, << 1 >>, TRUE)

SeparateCommas(s) ==
    ReplaceAll(
        ReplaceAll(
            ReplaceAll(s, RE_COMMA_AFTER_NON_NUMERIC, << "$1", " ", ",", " " >>),
            RE_COMMA_BEFORE_NON_NUMERIC, << " ", ",", " ", "$1" >>),
        RE_COMMA_AFTER_NUMBER_END_OF_SENTENCE, << "$1", " ", "," >>)

-----------------------------------------------------------------------------
(* ContractionSplitter *)

Apos == In({ "'" })

\* ([^\p{L}])[']([^\p{L}])
RE_SPACE_AROUND_APOSTROPHE == Re(<< NotIn(Letter), Apos, NotIn(Letter) >>, << 1, 3 >>, FALSE)
\* ([^\p{L}\p{N}])[']([\p{L}]), the English arm
RE_SPACE_BEFORE_APHOSTROPHE ==
    Re(<< NotIn(Letter \cup Number), Apos, In(Letter) >>, << 1, 3 >>, FALSE)
\* ([^\p{L}])[']([\p{L}]), the other arms
RE_SPACE_BEFORE_APOSTROPHE == Re(<< NotIn(Letter), Apos, In(Letter) >>, << 1, 3 >>, FALSE)
\* ([\p{L}])[']([^\p{L}])
RE_SPACE_AFTER_APOSTROPHE == Re(<< In(Letter), Apos, NotIn(Letter) >>, << 1, 3 >>, FALSE)
\* ([\p{L}])[']([\p{L}])
RE_SPACE_BEFORE_APHOSTROPHE_ALPHA == Re(<< In(Letter), Apos, In(Letter) >>, << 1, 3 >>, FALSE)
\* ([\p{N}])[']([s])
RE_NUMERIC_APOSTROPHE == Re(<< In(Number), Apos, In({ "s" }) >>, << 1, 3 >>, FALSE)
\* '
RE_APOSTROPHE_SPACE == Re(<< Apos >>, << >>, FALSE)

Around == << "$1", " ", "'", " ", "$2" >>      \* "$1 ' $2"
Before == << "$1", " ", "'", "$2" >>           \* "$1 '$2"
After  == << "$1", "'", " ", "$2" >>           \* "$1' $2"

\* Language::En
SplitContractionsRight(s) ==
    LET s1 == ReplaceAll(s,  RE_SPACE_AROUND_APOSTROPHE, Around)
        s2 == ReplaceAll(s1, RE_SPACE_BEFORE_APHOSTROPHE, Around)
        s3 == ReplaceAll(s2, RE_SPACE_AFTER_APOSTROPHE, Around)
        s4 == ReplaceAll(s3, RE_SPACE_BEFORE_APHOSTROPHE_ALPHA, Before)
    IN  ReplaceAll(s4, RE_NUMERIC_APOSTROPHE, Before)

\* Language::So | Language::Tdt
SplitContractionsGlottal(s) ==
    LET s1 == ReplaceAll(s,  RE_SPACE_AROUND_APOSTROPHE, Around)
        s2 == ReplaceAll(s1, RE_SPACE_BEFORE_APOSTROPHE, Around)
    IN  ReplaceAll(s2, RE_SPACE_AFTER_APOSTROPHE, Around)

\* Language::Fr | Language::It | Language::Ga | Language::Ca
SplitContractionsLeft(s) ==
    ReplaceAll(SplitContractionsGlottal(s), RE_SPACE_BEFORE_APHOSTROPHE_ALPHA, After)

\* every other language
SplitContractionsDefault(s) == ReplaceAll(s, RE_APOSTROPHE_SPACE, << " ", "'", " " >>)

SplitContractions(lang, s) ==
    CASE lang = "en"                         -> SplitContractionsRight(s)
      [] lang \in { "fr", "it", "ga", "ca" } -> SplitContractionsLeft(s)
      [] lang \in { "so", "tdt" }            -> SplitContractionsGlottal(s)
      [] OTHER                               -> SplitContractionsDefault(s)

-----------------------------------------------------------------------------
(* AbbreviationResolver *)

\* RE_PERIOD_CAPTURE ^(\S+)\.$ on a word (which holds no whitespace)
PeriodCapture(word) == Len(word) >= 2 /\ word[Len(word)] = "."

SplitPeriod(pre) == pre \o << " ", "." >>        \* format!("{} .", pre)

\* words[i + 1].chars().next().map_or(false, p)
NextStartsIn(words, i, S) ==
    i < Len(words) /\ words[i + 1] # << >> /\ words[i + 1][1] \in S

\* A bug: the last word is treated like the others
ProcessWord_NoLastRule(words, i, lang) ==
    LET word == words[i]
        pre  == SubSeq(word, 1, Len(word) - 1)
    IN  IF ~PeriodCapture(word) THEN word
        ELSE IF \/ "." \in Range(pre) /\ \E k \in 1..Len(pre) : pre[k] \in Letter
                \/ PrefixLookup(lang, pre) = "Always"
                \/ NextStartsIn(words, i, Lowercase)
             THEN word
        ELSE IF /\ PrefixLookup(lang, pre) = "NumericOnly"
                /\ NextStartsIn(words, i, AsciiDigit)
             THEN word
        ELSE SplitPeriod(pre)

\* The body of the for loop: processed_word for words[i]
ProcessWord(words, i, lang) ==
    LET word == words[i]
        pre  == SubSeq(word, 1, Len(word) - 1)
    IN  IF ~PeriodCapture(word) THEN word
        ELSE IF i = Len(words) THEN SplitPeriod(pre)
        ELSE IF \/ "." \in Range(pre) /\ \E k \in 1..Len(pre) : pre[k] \in Letter
                \/ PrefixLookup(lang, pre) = "Always"
                \/ NextStartsIn(words, i, Lowercase)
             THEN word
        ELSE IF /\ PrefixLookup(lang, pre) = "NumericOnly"
                /\ NextStartsIn(words, i, AsciiDigit)
             THEN word
        ELSE SplitPeriod(pre)

\* The word loop: every processed word followed by one space
WordTokenize(s, lang) ==
    LET words == Split(s, WhiteSpace)
    IN  Concat([ i \in 1..Len(words) |-> ProcessWord(words, i, lang) \o << " " >> ])

\* split_ascii_whitespace().collect().join(" ")
CleanUp(s) == Join(Split(s, AsciiWhiteSpace))

\* RE_PERIOD \.\' ?$ replaced (once) by ". ' "
PeriodApostropheFix(s) ==
    LET n == Len(s)
    IN  IF EndsWith(s, << ".", "'", " " >>)
        THEN SubSeq(s, 1, n - 3) \o << ".", " ", "'", " " >>
        ELSE IF EndsWith(s, << ".", "'" >>)
             THEN SubSeq(s, 1, n - 2) \o << ".", " ", "'", " " >>
             ELSE s

-----------------------------------------------------------------------------
(* Escaper *)

Entity(c) ==
    CASE c = "&"  -> << "&", "a", "m", "p", ";" >>
      [] c = "|"  -> << "&", "#", "1", "2", "4", ";" >>
      [] c = "<"  -> << "&", "l", "t", ";" >>
      [] c = ">"  -> << "&", "g", "t", ";" >>
      [] c = "'"  -> << "&", "a", "p", "o", "s", ";" >>
      [] c = "\"" -> << "&", "q", "u", "o", "t", ";" >>
      [] c = "["  -> << "&", "#", "9", "1", ";" >>
      [] c = "]"  -> << "&", "#", "9", "3", ";" >>

\* A bug: "&" escaped after the characters whose entities hold an "&"
EscapeOrder_AmpLast == << "|", "<", ">", "'", "\"", "[", "]", "&" >>

\* The order of the .replace() chain
EscapeOrder == << "&", "|", "<", ">", "'", "\"", "[", "]" >>

RECURSIVE EscapeFrom(_, _)
EscapeFrom(s, k) ==
    IF k > Len(EscapeOrder) THEN s
    ELSE EscapeFrom(ReplaceLit(s, << EscapeOrder[k] >>, Entity(EscapeOrder[k])), k + 1)

Escape(s) == EscapeFrom(s, 1)

\* if !tokenized_text.ends_with('\n') { push('\n') }
EnsureFinalNewline(s) == IF EndsWith(s, << "\n" >>) THEN s ELSE Append(s, "\n")

-----------------------------------------------------------------------------
(* moses_tokenize *)

\* str::lines(): split at "\n", a final empty piece dropped, a "\r" right
\* before the "\n" removed
RECURSIVE LinesFrom(_, _)
LinesFrom(s, i) ==
    LET ends == { j \in i..Len(s) : s[j] = "\n" }
        nl   == Least(ends)
        line == Slice(s, i, nl - 1)
    IN  IF i > Len(s) THEN << >>
        ELSE IF ends = { } THEN << Slice(s, i, Len(s)) >>
        ELSE << IF line # << >> /\ line[Len(line)] = "\r"
                THEN SubSeq(line, 1, Len(line) - 1) ELSE line >>
             \o LinesFrom(s, nl + 1)

Lines(s) == LinesFrom(s, 1)

-----------------------------------------------------------------------------
(* The calls *)

NoMap == [ k \in { } |-> << >> ]

StartLine(t) ==
    /\ text = t
    /\ tokenized_text = << >>
    /\ found_protected_patterns = NoMap
    /\ pre_escape = << >>
    /\ resolved = << >>

\* moses_tokenize_line called directly: the patterns are compiled Regex values.
LineCall(Texts, Langs, Escs, Hyphs, PatLists) ==
    /\ entry = "moses_tokenize_line"
    /\ pc = "normalize"
    /\ language \in Langs
    /\ no_escaping \in Escs
    /\ aggresive_hyphen_splitting \in Hyphs
    /\ protected_patterns \in PatLists
    /\ \E t \in Texts : StartLine(t)
    /\ contents = << >>
    /\ input_file_readable = TRUE
    /\ pending_lines = << >>
    /\ tokenized_contents = << >>
    /\ lines_tokenized = 0
    /\ output_file = "absent"
    /\ outcome = "running"

\* moses_tokenize or moses_tokenize_file called: the patterns are strings.
TextCall(Entries, Contents, Langs, Escs, Hyphs, PatLists) ==
    /\ entry \in Entries
    /\ pc = IF entry = "moses_tokenize_file" THEN "read" ELSE "compile"
    /\ language \in Langs
    /\ no_escaping \in Escs
    /\ aggresive_hyphen_splitting \in Hyphs
    /\ protected_patterns \in PatLists
    /\ StartLine(<< >>)
    /\ contents \in Contents
    /\ input_file_readable \in (IF entry = "moses_tokenize_file" THEN BOOLEAN ELSE { TRUE })
    /\ pending_lines = << >>
    /\ tokenized_contents = << >>
    /\ lines_tokenized = 0
    /\ output_file = "absent"
    /\ outcome = "running"

-----------------------------------------------------------------------------
(* moses_tokenize_file, moses_tokenize *)

\* let contents = fs::read_to_string(input_file_path)?;
ReadFile ==
    /\ pc = "read"
    /\ IF input_file_readable
       THEN pc' = "compile" /\ outcome' = outcome
       ELSE pc' = "done" /\ outcome' = "Err(io::Error)"
    /\ UNCHANGED << lineVars, callVars, pending_lines, tokenized_contents,
                    lines_tokenized, output_file >>

\* A bug: a pattern that does not compile is passed over
AllCompile_Lenient(patterns) == TRUE

\* Whether every Regex::new(t).unwrap() of the collect() succeeds
AllCompile(patterns) == \A k \in 1..Len(patterns) : RegexNew(patterns[k]).ok

\* protected_patterns.iter().map(|t| Regex::new(t).unwrap()).collect()
CompilePatterns ==
    /\ pc = "compile"
    /\ IF AllCompile(protected_patterns)
       THEN /\ pc' = "lines"
            /\ pending_lines' = Lines(contents)
            /\ outcome' = outcome
       ELSE /\ pc' = "done"
            /\ pending_lines' = pending_lines
            /\ outcome' = "panic"
    /\ UNCHANGED << lineVars, callVars, tokenized_contents, lines_tokenized,
                    output_file >>

\* text.lines().map(|line| moses_tokenize_line(line, ...)): the next line, or
\* the end of the iterator
NextLine ==
    /\ pc = "lines"
    /\ IF pending_lines # << >>
       THEN /\ pc' = "normalize"
            /\ text' = Head(pending_lines)
            /\ pending_lines' = Tail(pending_lines)
            /\ lines_tokenized' = lines_tokenized + 1
            /\ tokenized_text' = << >>
            /\ found_protected_patterns' = NoMap
            /\ pre_escape' = << >>
            /\ resolved' = << >>
            /\ outcome' = outcome
       ELSE /\ pc' = IF entry = "moses_tokenize_file" THEN "write" ELSE "done"
            /\ outcome' = IF entry = "moses_tokenize_file" THEN outcome ELSE "Ok"
            /\ UNCHANGED << lineVars, pending_lines, lines_tokenized >>
    /\ UNCHANGED << callVars, tokenized_contents, output_file >>

\* fs::write(output_file_path, tokenized_contents)
WriteFile ==
    /\ pc = "write"
    /\ \E written \in BOOLEAN :
          IF written
          THEN output_file' = tokenized_contents /\ outcome' = "Ok"
          ELSE output_file' = output_file /\ outcome' = "Err(io::Error)"
    /\ pc' = "done"
    /\ UNCHANGED << lineVars, callVars, pending_lines, tokenized_contents,
                    lines_tokenized >>

-----------------------------------------------------------------------------
(* moses_tokenize_line *)

\* A step of moses_tokenize_line that rewrites tokenized_text
Rewrite(from, to, new) ==
    /\ pc = from
    /\ pc' = to
    /\ tokenized_text' = new
    /\ UNCHANGED << text, found_protected_patterns, pre_escape, resolved,
                    callVars, fileVars >>

\* A regex whose LazyLock initialiser panics
Panic(from) ==
    /\ pc = from
    /\ pc' = "done"
    /\ outcome' = "panic"
    /\ UNCHANGED << lineVars, callVars, pending_lines, tokenized_contents,
                    lines_tokenized, output_file >>

NormalizeText == Rewrite("normalize", "control", Normalize(text))

RemoveControl == Rewrite("control", "protect", RemoveControlChars(tokenized_text))

Protect ==
    /\ pc = "protect"
    /\ pc' = "collapse"
    /\ LET r == ProtectLoop(protected_patterns, 1, text, tokenized_text,
                            found_protected_patterns)
       IN  /\ tokenized_text' = r.text
           /\ found_protected_patterns' = r.map
    /\ UNCHANGED << text, pre_escape, resolved, callVars, fileVars >>

Collapse == Rewrite("collapse", "general", CollapseWhitespace(tokenized_text))

SplitSpecialChars ==
    IF \A k \in 1..Len(SecondRegex(language)) : Compiles(SecondRegex(language)[k])
    THEN Rewrite("general", "hyphen",
                 ReplaceAll(tokenized_text, GeneralRegex(language), Pad1))
    ELSE Panic("general")

HyphenSplit ==
    IF aggresive_hyphen_splitting /\ ~Compiles(RE_AGGRESSIVE_HYPHEN_SPLITTING)
    THEN Panic("hyphen")
    ELSE Rewrite("hyphen", "multidot", tokenized_text)

MultiDot == Rewrite("multidot", "comma", TagMultiDots(tokenized_text))

Commas == Rewrite("comma", "contraction", SeparateCommas(tokenized_text))

Contractions ==
    Rewrite("contraction", "words", SplitContractions(language, tokenized_text))

Words ==
    /\ pc = "words"
    /\ pc' = "cleanup"
    /\ tokenized_text' = WordTokenize(tokenized_text, language)
    /\ resolved' = tokenized_text'
    /\ UNCHANGED << text, found_protected_patterns, pre_escape, callVars, fileVars >>

CleanUpSpaces == Rewrite("cleanup", "period", CleanUp(tokenized_text))

PeriodApostrophe == Rewrite("period", "restore", PeriodApostropheFix(tokenized_text))

RestoreProtected ==
    \E order \in IterationOrders(found_protected_patterns) :
        Rewrite("restore", "restoredots",
                RestoreInOrder(tokenized_text, order, found_protected_patterns))

RestoreDots == Rewrite("restoredots", "escape", RestoreMultiDots(tokenized_text))

EscapeSpecial ==
    /\ pc = "escape"
    /\ pc' = "newline"
    /\ pre_escape' = tokenized_text
    /\ tokenized_text' = IF no_escaping THEN tokenized_text ELSE Escape(tokenized_text)
    /\ UNCHANGED << text, found_protected_patterns, resolved, callVars, fileVars >>

FinalNewline == Rewrite("newline", "return", EnsureFinalNewline(tokenized_text))

\* `tokenized_text` is returned: to the caller, or to moses_tokenize's
\* collect::<String>()
Return ==
    /\ pc = "return"
    /\ IF entry = "moses_tokenize_line"
       THEN /\ pc' = "done"
            /\ outcome' = "Ok"
            /\ tokenized_contents' = tokenized_contents
       ELSE /\ pc' = "lines"
            /\ outcome' = outcome
            /\ tokenized_contents' = tokenized_contents \o tokenized_text
    /\ UNCHANGED << lineVars, callVars, pending_lines, lines_tokenized, output_file >>

Next ==
    \/ ReadFile
    \/ CompilePatterns
    \/ NextLine
    \/ WriteFile
    \/ NormalizeText
    \/ RemoveControl
    \/ Protect
    \/ Collapse
    \/ SplitSpecialChars
    \/ HyphenSplit
    \/ MultiDot
    \/ Commas
    \/ Contractions
    \/ Words
    \/ CleanUpSpaces
    \/ PeriodApostrophe
    \/ RestoreProtected
    \/ RestoreDots
    \/ EscapeSpecial
    \/ FinalNewline
    \/ Return

-----------------------------------------------------------------------------
(* Bounds and the sets the calls are drawn from *)

MaxLen == 3          \* characters of a text of Spec, SpecEscape, SpecControl
MaxDotLen == 5       \* characters of a text of SpecDots
MaxRun == 50         \* periods of a long run of SpecDots
MaxAposLen == 5      \* characters of a text of SpecApos
MaxWords == 3        \* words of a text of SpecWords
MaxRestoreLen == 3   \* characters after the prefix of a text of SpecRestore
MaxCommaLen == 4     \* characters of a text of SpecComma

\* The texts of at most n characters of A
Texts(A, n) == UNION { [ 1..k -> A ] : k \in 0..n }

\* The texts of at most n of the words W, one space between them
WordTexts(W, n) == { Join(ws) : ws \in UNION { [ 1..k -> W ] : k \in 0..n } }

\* moses_tokenize and moses_tokenize_file on a few files
FileCalls ==
    TextCall({ "moses_tokenize", "moses_tokenize_file" },
             { << >>,
               << "a", ".", "\n" >>,
               << "a", "'", "b", "\r", "\n", "b", "." >> },
             { "en", "fr" }, BOOLEAN, { FALSE },
             { << >>, << P_APOS >>, << P_MALFORMED >>, << P_APOS, P_MALFORMED >> })

Init ==
    \/ LineCall(Texts({ "a", "'", ".", " ", "\n", "$" }, MaxLen),
                { "en", "fr", "so", "de", "ca", "fi" }, BOOLEAN, BOOLEAN,
                { << >>, << P_QUOTED >>, << P_NEWLINE >>, << P_APOS, P_DOLLAR >> })
    \/ FileCalls

Spec == Init /\ [][Next]_vars

\* Period runs in plain text
Periods(n) == [ k \in 1..n |-> "." ]

InitDots ==
    \/ LineCall(Texts({ "a", ".", " ", ",", "'" }, MaxDotLen),
                { "en", "de" }, { TRUE }, { FALSE }, { << >>, << P_APOS >> })
    \/ LineCall({ pre \o Periods(n) \o post :
                    pre \in Texts({ "a", " " }, 1),
                    post \in Texts({ "a", " ", "1" }, 1),
                    n \in 2..MaxRun },
                { "en", "de" }, { TRUE }, { FALSE }, { << >> })
    \/ FileCalls

SpecDots == InitDots /\ [][Next]_vars

\* The characters the Escaper rewrites, and text that looks like an entity
InitEscape ==
    \/ LineCall(Texts({ "&", "|", "<", ">", "'", "\"", "[", "]", "a", ";" }, MaxLen)
                  \cup { << "&", "a", "m", "p", ";" >>, << "&", "l", "t", ";", "<" >> },
                { "en", "de" }, BOOLEAN, { FALSE }, { << >>, << P_QUOTED >> })
    \/ FileCalls

SpecEscape == InitEscape /\ [][Next]_vars

\* Apostrophes between letters, digits and spaces
InitApos ==
    \/ LineCall(Texts({ "a", "b", "'", " ", "1" }, MaxAposLen),
                { "en", "fr", "it", "ga", "ca", "so", "tdt", "de", "ru" },
                { TRUE }, { FALSE }, { << >> })
    \/ FileCalls

SpecApos == InitApos /\ [][Next]_vars

\* Words with and without a final period
InitWords ==
    \/ LineCall(WordTexts({ << "M", "r", "." >>, << "N", "o", "." >>, << "M", "." >>,
                            << "a", "." >>, << "a", ".", "b", "." >>,
                            << "1", ".", "2", "." >>, << "." >>,
                            << "a" >>, << "A" >>, << "1" >>, << "U+0663" >> },
                          MaxWords),
                { "en", "fr", "de" }, { TRUE }, { FALSE }, { << >> })
    \/ FileCalls

SpecWords == InitWords /\ [][Next]_vars

\* Control characters and characters whose code point is above U+00FF
InitControl ==
    \/ LineCall(Texts({ "a", " ", "\t", "U+0001", "U+001F", "U+0101", "U+0119",
                        "U+0120", "U+4E00" }, MaxLen),
                { "en", "de" }, { TRUE }, { FALSE }, { << >>, << P_APOS >> })
    \/ FileCalls

SpecControl == InitControl /\ [][Next]_vars

\* Protected matches in texts that may themselves spell the start of a
\* placeholder
InitRestore ==
    \/ LineCall({ pre \o post :
                    pre \in { << >>, THISISPROTECTED \o << "0", "0" >> },
                    post \in Texts({ "1", "'", "a", " " }, MaxRestoreLen) },
                { "en", "de" }, BOOLEAN, { FALSE },
                { << >>, << P_ONE >>, << P_APOS >>, << P_APOS, P_ONE >> })
    \/ FileCalls

SpecRestore == InitRestore /\ [][Next]_vars

\* Commas next to digits, letters, periods, spaces and the ends of the line
InitComma ==
    \/ LineCall(Texts({ ",", "5", "U+0663", "a", ".", " " }, MaxCommaLen),
                { "en", "de", "fr", "ca" }, { TRUE }, { FALSE }, { << >> })
    \/ FileCalls

SpecComma == InitComma /\ [][Next]_vars

-----------------------------------------------------------------------------
(* Claims *)

\* moses_tokenize_line, called directly, has returned tokenized_text
LineReturned == entry = "moses_tokenize_line" /\ pc = "done" /\ outcome = "Ok"

\* The matches replace_all finds for re in s: leftmost first, not overlapping
RECURSIVE MatchesFrom(_, _, _)
MatchesFrom(s, i, re) ==
    LET found == { j \in i..Len(s) : MatchAt(s, j, re) }
        at    == Least(found)
    IN  IF found = { } THEN { }
        ELSE { SubSeq(s, at, at + Len(re.items) - 1) }
             \cup MatchesFrom(s, at + Len(re.items), re)

ProtectedSubstrings ==
    UNION { MatchesFrom(text, 1, Compiled(protected_patterns[k])) :
                k \in 1..Len(protected_patterns) }

\* C1: every substring of the input line that a protected pattern matches
\* appears unchanged in the line moses_tokenize_line returns, whatever the
\* escaping and hyphen flags.
C1_ProtectedPreserved ==
    LineReturned => \A S \in ProtectedSubstrings : Contains(tokenized_text, S)

\* The protection stage as section 4.2 of the specification states it: each
\* pattern is matched against the text the earlier patterns left.
RECURSIVE CumulativeProtect(_, _, _, _)
CumulativeProtect(patterns, k, cur, map) ==
    IF k > Len(patterns) THEN [ text |-> cur, map |-> map ]
    ELSE LET r == ProtectFrom(cur, 1, Compiled(patterns[k]), map)
         IN  CumulativeProtect(patterns, k + 1, r.text, r.map)

\* C2: after the protection stage the working text is the normalized text
\* with the patterns applied one after the other, each to the result of the
\* ones before it, so it holds the placeholder of every recorded match.
C2_CumulativeProtection ==
    pc = "collapse" =>
        /\ tokenized_text =
             CumulativeProtect(protected_patterns, 1,
                               RemoveControlChars(Normalize(text)), NoMap).text
        /\ \A key \in DOMAIN found_protected_patterns : Contains(tokenized_text, key)

Count(s, c) == Cardinality({ i \in 1..Len(s) : s[i] = c })

\* C3: the line moses_tokenize_line returns ends with "\n" and holds no
\* other "\n".
C3_NewlineInvariant ==
    LineReturned =>
        /\ EndsWith(tokenized_text, << "\n" >>)
        /\ Count(tokenized_text, "\n") = 1

\* A text with its leading and trailing whitespace removed
Trim(s) ==
    LET kept == { j \in 1..Len(s) : s[j] \notin WhiteSpace }
    IN  IF kept = { } THEN << >>
        ELSE SubSeq(s, Least(kept), CHOOSE j \in kept : \A k \in kept : k <= j)

\* The periods of a text in their places: every period kept, every maximal
\* stretch of other characters replaced by one "x"
PeriodSkeletonOf(s) ==
    LET marked == [ i \in 1..Len(s) |->
                      IF s[i] = "." THEN "." ELSE
                      IF i > 1 /\ s[i - 1] # "." THEN " " ELSE "x" ]
    IN  SelectSeq(marked, LAMBDA c : c # " ")

PeriodSkeleton(s) == PeriodSkeletonOf(Trim(s))

\* C4: in plain text, every run of two or more periods comes out of the
\* tagging and restoration loops as a run of the same length in the same
\* place (between the same neighbours), never split and never merged.
C4_MultiDotRoundTrip ==
    LineReturned => PeriodSkeleton(tokenized_text) = PeriodSkeleton(text)

C4_Witness ==
    /\ LineReturned
    /\ text = << "a" >> \o Periods(MaxRun) \o << "a" >>
    /\ tokenized_text = << "a", " " >> \o Periods(MaxRun) \o << " ", "a", "\n" >>

-----------------------------------------------------------------------------
\* The entity section 4.8 designates for each of the eight characters
C5_Designated ==
    [ c \in { "&", "|", "<", ">", "'", "\"", "[", "]" } |->
        CASE c = "&"  -> << "&", "a", "m", "p", ";" >>
          [] c = "|"  -> << "&", "#", "1", "2", "4", ";" >>
          [] c = "<"  -> << "&", "l", "t", ";" >>
          [] c = ">"  -> << "&", "g", "t", ";" >>
          [] c = "'"  -> << "&", "a", "p", "o", "s", ";" >>
          [] c = "\"" -> << "&", "q", "u", "o", "t", ";" >>
          [] c = "["  -> << "&", "#", "9", "1", ";" >>
          [] c = "]"  -> << "&", "#", "9", "3", ";" >> ]

\* Every character replaced on its own, independently of the others
C5_EachReplaced(s) ==
    Concat([ i \in 1..Len(s) |->
               IF s[i] \in DOMAIN C5_Designated THEN C5_Designated[s[i]] ELSE << s[i] >> ])

\* C5: with escaping enabled the Escaper replaces each & | < > ' " [ ] of
\* the text it receives by exactly its entity, an "&" it wrote is not
\* escaped again, and the returned line holds none of the eight characters
\* except "&" at the start of an entity; with escaping disabled it changes
\* nothing.
C5_EscapingToggle ==
    /\ pc = "newline" =>
         tokenized_text = IF no_escaping THEN pre_escape ELSE C5_EachReplaced(pre_escape)
    /\ (LineReturned /\ ~no_escaping) =>
         \A i \in 1..Len(tokenized_text) :
            /\ tokenized_text[i] \notin { "|", "<", ">", "'", "\"", "[", "]" }
            /\ tokenized_text[i] = "&" =>
                 \E c \in DOMAIN C5_Designated :
                    StartsWithAt(tokenized_text, i, C5_Designated[c])

C5_Witness ==
    /\ LineReturned
    /\ ~no_escaping
    /\ text = << "&", "l", "t", ";", "<" >>
    /\ pre_escape = << "&", " ", "l", "t", " ", ";", " ", "<" >>
    /\ tokenized_text = << "&", "a", "m", "p", ";", " ", "l", "t", " ", ";", " ",
                           "&", "l", "t", ";", "\n" >>

-----------------------------------------------------------------------------
\* The characters of s that are not whitespace are numbered 1, 2, ...;
\* PlaceOf(s, n) is the position in s of the n-th of them.
NonSpacePlaces(s) == { i \in 1..Len(s) : s[i] \notin WhiteSpace }
RankIn(s, i) == Cardinality({ j \in NonSpacePlaces(s) : j <= i })
PlaceOf(s, n) == CHOOSE i \in NonSpacePlaces(s) : RankIn(s, i) = n

SpaceBefore(s, i) == i > 1 /\ s[i - 1] \in WhiteSpace
SpaceAfter(s, i) == i < Len(s) /\ s[i + 1] \in WhiteSpace

\* C6: the returned line has, for every apostrophe of the input that stands
\* directly between two letters, a token boundary before it only (English),
\* after it only (French, Italian, Irish, Catalan), on neither side (Somali,
\* Tetun), or on both sides (every other language).
C6_ContractionByLanguage ==
    (entry = "moses_tokenize_line" /\ pc = "done" /\ protected_patterns = << >>) =>
        \A i \in 2..(Len(text) - 1) :
            (text[i] = "'" /\ text[i - 1] \in Letter /\ text[i + 1] \in Letter) =>
                /\ outcome = "Ok"
                /\ Cardinality(NonSpacePlaces(tokenized_text))
                     = Cardinality(NonSpacePlaces(text))
                /\ LET o == PlaceOf(tokenized_text, RankIn(text, i))
                       before == SpaceBefore(tokenized_text, o)
                       after  == SpaceAfter(tokenized_text, o)
                   IN  CASE language = "en" -> before /\ ~after
                         [] language \in { "fr", "it", "ga", "ca" } -> ~before /\ after
                         [] language \in { "so", "tdt" } -> ~before /\ ~after
                         [] OTHER -> before /\ after

-----------------------------------------------------------------------------
SomeMalformed == \E k \in 1..Len(protected_patterns) : ~RegexNew(protected_patterns[k]).ok

NothingTokenized ==
    /\ lines_tokenized = 0
    /\ tokenized_contents = << >>
    /\ output_file = "absent"

\* C7 as claimed: with a malformed pattern, moses_tokenize and
\* moses_tokenize_file (its input file readable) return an InvalidPattern
\* error to the caller, before any line is tokenized and without any output.
C7_InvalidPatternReturned ==
    (entry # "moses_tokenize_line" /\ SomeMalformed /\ input_file_readable /\ pc = "done") =>
        outcome = "Err(InvalidPattern)" /\ NothingTokenized

\* C7 as amended: with a malformed pattern, moses_tokenize panics, and so
\* does moses_tokenize_file unless reading the input file fails first (then
\* the I/O error is returned); in every case no line is tokenized, no text
\* is returned and no output file is written.
C7_MalformedPatternPanics ==
    (entry # "moses_tokenize_line" /\ SomeMalformed) =>
        /\ NothingTokenized
        /\ pc \in { "read", "compile", "done" }
        /\ pc = "done" =>
              IF entry = "moses_tokenize_file" /\ ~input_file_readable
              THEN outcome = "Err(io::Error)"
              ELSE outcome = "panic"

C7_Witness ==
    /\ entry = "moses_tokenize_file"
    /\ protected_patterns = << P_APOS, P_MALFORMED >>
    /\ contents # << >>
    /\ input_file_readable
    /\ pc = "done"
    /\ outcome = "panic"

-----------------------------------------------------------------------------
\* The kind the dictionary gives a prefix; lib.rs has no other access to it.
C8_Kind(lang, pre) == PrefixLookup(lang, pre)

\* Whether the final period of token is split off: the first applicable rule
\* of (1)..(6), from the token, the dictionary, whether the token is the
\* last one, and the first character of the next token.
C8_Splits(lang, token, isLast, nextFirst) ==
    LET pre == SubSeq(token, 1, Len(token) - 1)
    IN  CASE isLast -> TRUE
          [] ~isLast /\ "." \in Range(pre) /\ Range(pre) \cap Letter # { } -> FALSE
          [] OTHER ->
               CASE C8_Kind(lang, pre) = "Always" -> FALSE
                 [] OTHER ->
                      CASE nextFirst \in Lowercase -> FALSE
                        [] OTHER ->
                             ~(C8_Kind(lang, pre) = "NumericOnly" /\ nextFirst \in AsciiDigit)

C8_Token(lang, words, i) ==
    LET token == words[i]
    IN  IF Len(token) >= 2 /\ token[Len(token)] = "."
           /\ C8_Splits(lang, token, i = Len(words),
                        IF i < Len(words) THEN words[i + 1][1] ELSE "")
        THEN << SubSeq(token, 1, Len(token) - 1), << "." >> >>
        ELSE << token >>

\* C8: the word loop turns the whitespace-separated tokens into the same
\* tokens, with the final period of a token split off exactly when the
\* ordered rules (1)..(6) say so.
C8_AbbreviationResolver ==
    [][ pc = "words" =>
          LET words == Split(tokenized_text, WhiteSpace)
          IN  Split(tokenized_text', WhiteSpace)
                = Concat([ i \in 1..Len(words) |-> C8_Token(language, words, i) ])
      ]_vars

C8_Witness ==
    /\ pc = "cleanup"
    /\ language = "en"
    /\ text = << "N", "o", ".", " ", "1", ".", "2", ".", " ", "M", "r", "." >>
    /\ resolved = << "N", "o", ".", " ", "1", ".", "2", " ", ".", " ", "M", "r", " ", ".", " " >>

-----------------------------------------------------------------------------
\* C9: the control-character step drops exactly the characters whose code
\* point is at most 31 and keeps every other character in its place, and no
\* character with a code point of at most 31 reaches the later passes.
C9_ControlFilter ==
    /\ pc = "protect" =>
         tokenized_text = SelectSeq(Normalize(text), LAMBDA c : CodePoint(c) > 31)
    /\ pc \in { "general", "hyphen", "multidot", "comma", "contraction", "words" } =>
         \A i \in 1..Len(tokenized_text) : CodePoint(tokenized_text[i]) > 31

-----------------------------------------------------------------------------
\* C10: when the text the word loop leaves ends with .' (and its one space),
\* the returned line ends with the two tokens "." and "'", the period a
\* token of its own.
C10_PeriodApostrophe ==
    (LineReturned /\ (EndsWith(resolved, << ".", "'", " " >>) \/ EndsWith(resolved, << ".", "'" >>))) =>
        LET tokens == Split(tokenized_text, WhiteSpace)
            n == Len(tokens)
        IN  /\ n >= 2
            /\ tokens[n - 1] = << "." >>
            /\ tokens[n] = IF no_escaping THEN << "'" >> ELSE C5_Designated["'"]

-----------------------------------------------------------------------------
\* C11: when the placeholders are about to be restored, every order of the
\* entries of the substitution map gives the same text, and that text holds
\* no placeholder of the map.
C11_RestorationOrderIndependent ==
    pc = "restore" =>
        \A o1 \in IterationOrders(found_protected_patterns) :
            LET restored == RestoreInOrder(tokenized_text, o1, found_protected_patterns)
            IN  /\ \A o2 \in IterationOrders(found_protected_patterns) :
                      RestoreInOrder(tokenized_text, o2, found_protected_patterns) = restored
                /\ \A key \in DOMAIN found_protected_patterns : ~Contains(restored, key)

-----------------------------------------------------------------------------
\* The comma at place i of s stands directly between two digits
C12_BetweenDigits(s, i) ==
    /\ i > 1 /\ s[i - 1] \in Number
    /\ i < Len(s) /\ s[i + 1] \in Number

\* The character at place o of s is a whitespace-delimited token of its own
C12_SeparateToken(s, o) ==
    /\ o = 1 \/ SpaceBefore(s, o)
    /\ o = Len(s) \/ SpaceAfter(s, o)

\* C12: in every language, every comma of the input line that does not
\* stand directly between two digits is a token of its own in the line
\* moses_tokenize_line returns: the first character of the line, next to a
\* non-digit on either side, or after a digit at the end of the line.
C12_CommaSeparation ==
    (entry = "moses_tokenize_line" /\ pc = "done" /\ protected_patterns = << >>) =>
        \A i \in 1..Len(text) :
            (text[i] = "," /\ ~C12_BetweenDigits(text, i)) =>
                /\ outcome = "Ok"
                /\ Cardinality(NonSpacePlaces(tokenized_text))
                     = Cardinality(NonSpacePlaces(text))
                /\ C12_SeparateToken(tokenized_text,
                                     PlaceOf(tokenized_text, RankIn(text, i)))

=============================================================================
